---- MODULE Spec2Model ----
(***************************************************************************)
(* iteritor: lazy split/merge of streams of short-circuit values.          *)
(*                                                                         *)
(*   buffer.rs    ControlFlowBuffer (push, pop, push_and_pop,              *)
(*                next_unwrapped, next_wrapped) over Rc<RefCell<VecDeque>> *)
(*   filtered.rs  FilteredIter / DefilteredIter                            *)
(*   breaking.rs  BreakingIterator                                         *)
(*   lib.rs       with_filtered_buf / with_filtered / with_folding         *)
(*                                                                         *)
(* Option<T> is modelled as a sequence of length at most one: <<>> is None *)
(* and <<x>> is Some(x).  A short-circuit value is a record [k, v] with    *)
(* k = "N" (normal, v the Output) or k = "D" (divergent, v the Residual).  *)
(***************************************************************************)
EXTENDS Integers, Sequences, FiniteSets, TLC

VARIABLES
    source,      \* the whole stream handed to the pipeline (never changes)
    input_iter,  \* FilteredIter.input_iter / BreakingIterator.input_iter: what is left of it
    buffer,      \* the VecDeque shared by FilteredIter.buffer and DefilteredIter.buffer
    mult,        \* the caller's transformation f: copies emitted per normal value
    pending,     \* f's own state: copies of the current value not yet emitted
    calls,       \* history of the calls made so far, oldest first
    result,      \* with_folding's `result` slot borrowed by the BreakingIterator
    acc,         \* what the fold f has accumulated from the outputs it pulled
    pc,          \* with_folding: "running" while f runs, "done" once it returned
    folded,      \* with_folding's return value, Some(T) once pc = "done"
    handles,     \* buffer handles: handles[h] is the cell the handle h refers to
    cells,       \* the RefCell<VecDeque<T>> cells: cells[c] is a queue
    original_max,\* DefilteredIter.original_max: the source's upper bound at construction
    hinted       \* the size_hint() answer obtained since the last next(), None if none

vars == <<source, input_iter, buffer, mult, pending, calls,
          result, acc, pc, folded, handles, cells, original_max, hinted>>

filteredVars == <<source, input_iter, buffer, mult, pending, original_max>>
foldingVars  == <<result, acc, pc, folded>>
bufferVars   == <<handles, cells>>

----------------------------------------------------------------------------
(* Bounds of the model *)

MaxLen == 3        \* longest enumerated source stream of a filter-recombine pipeline
MaxFoldLen == 4    \* longest source stream folded
MaxVal == 2        \* normal outputs are 1..MaxVal
NumRes == 2        \* residuals are 1..NumRes
MaxCalls == 11     \* next() calls made on a DefilteredIter
MaxOps == 3        \* calls made on a bare buffer
MaxHandles == 2    \* handles of a bare buffer
MaxHintLen == 2    \* longest source stream of a run in which size_hint() is asked

----------------------------------------------------------------------------
(* Short-circuit values: the Try collaborator (try_polyfill)                *)

None == <<>>
Some(x) == <<x>>

from_output(o) == [k |-> "N", v |-> o]
from_residual(r) == [k |-> "D", v |-> r]
branch(t) == IF t.k = "N" THEN [cf |-> "Continue", v |-> t.v]
                          ELSE [cf |-> "Break", v |-> t.v]

Outputs == 1..MaxVal
Residuals == 1..NumRes
Items == {from_output(o) : o \in Outputs} \cup {from_residual(r) : r \in Residuals}

StreamsTo(len) == UNION {[1..n -> Items] : n \in 0..len}
Streams == StreamsTo(MaxLen)

\* filtered.rs result_samples(): boom = 1, hi = 2, zoop = 3
result_samples ==
    << from_output(1), from_output(2), from_output(1),
       from_residual(1), from_residual(2),
       from_output(3), from_output(1),
       from_residual(3), from_output(5) >>

----------------------------------------------------------------------------
(* buffer.rs: the queue operations, on the queue value q                    *)

\* bug variant: the item is put at the head (push_front)
push_front(q, input) == <<input>> \o q

push(q, input) == Append(q, input)

\* bug variant: the newest item is taken (pop_back)
pop_back(q) == IF q = <<>> THEN [ret |-> None, q |-> q]
                           ELSE [ret |-> Some(q[Len(q)]), q |-> SubSeq(q, 1, Len(q) - 1)]

pop(q) == IF q = <<>> THEN [ret |-> None, q |-> q]
                      ELSE [ret |-> Some(Head(q)), q |-> Tail(q)]

\* bug variant: the input is not queued behind the pending items
push_and_pop_no_requeue(q, input) ==
    LET p == pop(q) IN
    IF p.ret # None THEN [ret |-> p.ret[1], q |-> p.q]
                    ELSE [ret |-> input, q |-> p.q]

push_and_pop(q, input) ==
    LET p == pop(q) IN
    IF p.ret # None THEN [ret |-> p.ret[1], q |-> push(p.q, input)]
                    ELSE [ret |-> input, q |-> p.q]

\* bug variant: divergent items are skipped without being buffered
RECURSIVE next_unwrapped_skip(_, _)
next_unwrapped_skip(q, iter) ==
    IF iter = <<>> THEN [ret |-> None, q |-> q, iter |-> iter]
    ELSE LET b == branch(Head(iter)) IN
         IF b.cf = "Continue"
         THEN [ret |-> Some(b.v), q |-> q, iter |-> Tail(iter)]
         ELSE next_unwrapped_skip(q, Tail(iter))

\* bug variant: every item met is buffered, the normal one included
RECURSIVE next_unwrapped_push_all(_, _)
next_unwrapped_push_all(q, iter) ==
    IF iter = <<>> THEN [ret |-> None, q |-> q, iter |-> iter]
    ELSE LET b == branch(Head(iter)) IN
         IF b.cf = "Continue"
         THEN [ret |-> Some(b.v), q |-> push(q, Head(iter)), iter |-> Tail(iter)]
         ELSE next_unwrapped_push_all(push(q, from_residual(b.v)), Tail(iter))

\* `for next in iter`: pulls until the first normal item, buffering the rest
RECURSIVE next_unwrapped(_, _)
next_unwrapped(q, iter) ==
    IF iter = <<>> THEN [ret |-> None, q |-> q, iter |-> iter]
    ELSE LET b == branch(Head(iter)) IN
         IF b.cf = "Continue"
         THEN [ret |-> Some(b.v), q |-> q, iter |-> Tail(iter)]
         ELSE next_unwrapped(push(q, from_residual(b.v)), Tail(iter))

----------------------------------------------------------------------------
(* The caller's transformation f over the FilteredIter: a lazy adaptor that *)
(* emits m[n] copies of every normal value n (0 drops it: filter; 1 keeps   *)
(* it: identity; 2 duplicates it: flat_map).  st is the state of the whole  *)
(* chain: [q: the shared queue, iter: the source, pending: copies left,     *)
(* inner: the FilteredIter::next calls made during the current call, each   *)
(* with the queue and the source before (q0, iter0) and after (q1, iter1)]. *)

Copies(n, c) == [i \in 1..c |-> n]

RECURSIVE transformed_next(_, _)
transformed_next(m, st) ==
    IF st.pending # <<>>
    THEN [ret |-> Some(Head(st.pending)), advanced |-> FALSE,
          st |-> [st EXCEPT !.pending = Tail(st.pending)]]
    ELSE LET u == next_unwrapped(st.q, st.iter)         \* FilteredIter::next
             seen == Append(st.inner, [q0 |-> st.q, iter0 |-> st.iter, ret |-> u.ret,
                                       q1 |-> u.q, iter1 |-> u.iter])
         IN
         IF u.ret = None
         THEN [ret |-> None, advanced |-> TRUE,
               st |-> [q |-> u.q, iter |-> u.iter, pending |-> <<>>, inner |-> seen]]
         ELSE LET c == Copies(u.ret[1], m[u.ret[1]]) IN
              IF c = <<>>
              THEN transformed_next(m, [q |-> u.q, iter |-> u.iter, pending |-> <<>>,
                                        inner |-> seen])
              ELSE [ret |-> Some(Head(c)), advanced |-> TRUE,
                    st |-> [q |-> u.q, iter |-> u.iter, pending |-> Tail(c),
                            inner |-> seen]]

\* bug variant: the output pulled is wrapped and returned at once, ahead of
\* the divergent values buffered while it was pulled
next_wrapped_direct(m, st) ==
    LET p == pop(st.q) IN
    IF p.ret # None
    THEN [ret |-> p.ret, advanced |-> FALSE, tret |-> None, qpap |-> None,
          st |-> [st EXCEPT !.q = p.q]]
    ELSE LET t == transformed_next(m, st) IN
         IF t.ret = None
         THEN [ret |-> None, advanced |-> TRUE, tret |-> None, qpap |-> None, st |-> t.st]
         ELSE [ret |-> Some(from_output(t.ret[1])), advanced |-> TRUE, tret |-> t.ret,
               qpap |-> None, st |-> t.st]

\* bug variant: the transformed stream is asked before the queue is looked at
next_wrapped_pull_first(m, st) ==
    LET t == transformed_next(m, st) IN
    IF t.ret = None
    THEN LET p == pop(t.st.q) IN
         [ret |-> p.ret, advanced |-> TRUE, tret |-> None, qpap |-> None,
          st |-> [t.st EXCEPT !.q = p.q]]
    ELSE LET pp == push_and_pop(t.st.q, from_output(t.ret[1])) IN
         [ret |-> Some(pp.ret), advanced |-> TRUE, tret |-> t.ret,
          qpap |-> Some(t.st.q), st |-> [t.st EXCEPT !.q = pp.q]]

\* buffer.rs next_wrapped, with iter = the transformed stream.  Besides the
\* return value it reports what the call did: whether it asked the transformed
\* stream (advanced), what that returned (tret) and the queue it handed to
\* push_and_pop (qpap, None when push_and_pop was not called).
next_wrapped(m, st) ==
    LET p == pop(st.q) IN
    IF p.ret # None
    THEN [ret |-> p.ret, advanced |-> FALSE, tret |-> None, qpap |-> None,
          st |-> [st EXCEPT !.q = p.q]]
    ELSE LET t == transformed_next(m, st) IN
         IF t.ret = None
         THEN [ret |-> None, advanced |-> TRUE, tret |-> None, qpap |-> None, st |-> t.st]
         ELSE LET pp == push_and_pop(t.st.q, from_output(t.ret[1])) IN
              [ret |-> Some(pp.ret), advanced |-> TRUE, tret |-> t.ret,
               qpap |-> Some(t.st.q), st |-> [t.st EXCEPT !.q = pp.q]]

----------------------------------------------------------------------------
(* lib.rs with_filtered_buf: the pipeline after construction                *)

\* drop, keep or duplicate, per value
Mults == [Outputs -> {0, 1, 2}]
SampleMults == { [n \in 1..5 |-> 1], [n \in 1..5 |-> IF n > 2 THEN 1 ELSE 0] }

\* high is what self.size_hint().1 answers when the pipeline is built
with_filtered_buf(s, f, high) ==
    /\ source = s
    /\ original_max = high
    /\ input_iter = s
    /\ buffer = <<>>            \* Buffer::default()
    /\ mult = f
    /\ pending = <<>>
    /\ calls = <<>>
    /\ hinted = None

InitIdle ==
    /\ result = None /\ acc = 0 /\ pc = "idle" /\ folded = None
    /\ handles = <<>> /\ cells = <<>>

Init ==
    /\ \/ \E s \in Streams, f \in Mults : with_filtered_buf(s, f, Some(Len(s)))
       \/ \E f \in SampleMults :
             with_filtered_buf(result_samples, f, Some(Len(result_samples)))
    /\ InitIdle

\* filtered.rs DefilteredIter::next
DefilteredIter_next ==
    /\ Len(calls) < MaxCalls
    /\ LET r == next_wrapped(mult, [q |-> buffer, iter |-> input_iter, pending |-> pending,
                                    inner |-> <<>>]) IN
       /\ buffer' = r.st.q
       /\ input_iter' = r.st.iter
       /\ pending' = r.st.pending
       /\ calls' = Append(calls, [ret |-> r.ret, advanced |-> r.advanced,
                                  pulled |-> Len(input_iter) - Len(r.st.iter),
                                  q0 |-> buffer, q1 |-> r.st.q, tret |-> r.tret,
                                  qpap |-> r.qpap, inner |-> r.st.inner])
    /\ hinted' = None
    /\ UNCHANGED <<source, mult, original_max, foldingVars, bufferVars>>

Next == DefilteredIter_next

Spec == Init /\ [][Next]_vars

----------------------------------------------------------------------------
(* Observations on a pipeline run                                           *)

IsDivergent(t) == t.k = "D"
IsNormal(t) == t.k = "N"

\* index of the first call that returned None, 0 when there is none yet
FirstNone ==
    IF \E i \in DOMAIN calls : calls[i].ret = None
    THEN CHOOSE i \in DOMAIN calls :
            /\ calls[i].ret = None
            /\ \A j \in 1..(i - 1) : calls[j].ret # None
    ELSE 0

Drained == FirstNone # 0

\* what `.collect()` gathers: the items returned before the first None
Collected == [i \in 1..(FirstNone - 1) |-> calls[i].ret[1]]

Identity == \A n \in DOMAIN mult : mult[n] = 1
IsFilter == \A n \in DOMAIN mult : mult[n] \in {0, 1}

\* the doc example's reference: filter_map keeping every Err and the Ok's that pass
KeepsRef(t) == IsDivergent(t) \/ mult[t.v] = 1
FilterMapRef == SelectSeq(source, KeepsRef)

RECURSIVE CopiesOf(_)
\* number of outputs f makes of the normal elements of s
CopiesOf(s) ==
    IF s = <<>> THEN 0
    ELSE (IF IsNormal(Head(s)) THEN mult[Head(s).v] ELSE 0) + CopiesOf(Tail(s))

\* position in s of its r-th divergent element, 0 when it has fewer
NthDivergent(s, r) ==
    IF \E p \in DOMAIN s : IsDivergent(s[p]) /\ Len(SelectSeq(SubSeq(s, 1, p), IsDivergent)) = r
    THEN CHOOSE p \in DOMAIN s :
            IsDivergent(s[p]) /\ Len(SelectSeq(SubSeq(s, 1, p), IsDivergent)) = r
    ELSE 0

NormalsBefore(s, p) == Len(SelectSeq(SubSeq(s, 1, p - 1), IsNormal))

----------------------------------------------------------------------------
(* Claims on the filter-recombine pipeline                                  *)

\* C1: with the identity transformation, the items collected up to the first
\* None are exactly the source stream: same elements, same order, same length.
C1_IdentityRoundTrip ==
    (Identity /\ Drained) => Collected = source

\* C2: for every transformation, the items collected up to the first None hold
\* every divergent element of the source, once each, in source order.
C2_AllDivergentsInOrder ==
    Drained => SelectSeq(Collected, IsDivergent) = SelectSeq(source, IsDivergent)

\* C3: for every divergent element d of the source and every normal element n
\* that f keeps, d is emitted before every output copy of n when d precedes n
\* in the source and after every output copy of n when d follows n.
C3_OrderPreservingMerge ==
    Drained =>
        \A i, j \in DOMAIN source :
            (IsDivergent(source[i]) /\ IsNormal(source[j]) /\ mult[source[j].v] > 0) =>
                LET r == Len(SelectSeq(SubSeq(source, 1, i), IsDivergent))
                    p == NthDivergent(Collected, r)
                    first == CopiesOf(SubSeq(source, 1, j - 1)) + 1
                    last == CopiesOf(SubSeq(source, 1, j))
                IN  /\ p # 0
                    /\ Collected[p] = source[i]
                    /\ i < j => NormalsBefore(Collected, p) < first
                    /\ i > j => NormalsBefore(Collected, p) >= last

\* C4: with f = filter(p), the items collected up to the first None are the
\* source with every divergent element kept and exactly the normal elements
\* satisfying p kept, in source order.
C4_FilterEqualsReference ==
    (IsFilter /\ Drained) => Collected = FilterMapRef

----------------------------------------------------------------------------
(* breaking.rs BreakingIterator and lib.rs with_folding                     *)

\* bug variant: the slot is not consulted, so the iterator goes on pulling
BreakingIterator_next_unguarded(res, iter) ==
    IF iter = <<>> THEN [ret |-> None, result |-> res, iter |-> iter]
    ELSE LET b == branch(Head(iter)) IN
         IF b.cf = "Continue"
         THEN [ret |-> Some(b.v), result |-> res, iter |-> Tail(iter)]
         ELSE [ret |-> None, result |-> Some(b.v), iter |-> Tail(iter)]

\* bug variant: the source is advanced before the slot is consulted
BreakingIterator_next_pull_first(res, iter) ==
    IF res = None THEN BreakingIterator_next_unguarded(res, iter)
    ELSE [ret |-> None, result |-> res, iter |-> IF iter = <<>> THEN iter ELSE Tail(iter)]

\* bug variant: after a normal item, a divergent item right behind it is
\* consumed and recorded at once
BreakingIterator_next_peeking(res, iter) ==
    IF res # None THEN [ret |-> None, result |-> res, iter |-> iter]
    ELSE LET r == BreakingIterator_next_unguarded(res, iter) IN
         IF r.ret # None /\ r.iter # <<>> /\ branch(Head(r.iter)).cf = "Break"
         THEN [ret |-> r.ret, result |-> Some(branch(Head(r.iter)).v), iter |-> Tail(r.iter)]
         ELSE r

\* breaking.rs BreakingIterator::next on the slot `res` and the source `iter`
BreakingIterator_next(res, iter) ==
    IF res = None
    THEN IF iter = <<>>
         THEN [ret |-> None, result |-> res, iter |-> iter]      \* the `?`
         ELSE LET b == branch(Head(iter)) IN
              IF b.cf = "Continue"
              THEN [ret |-> Some(b.v), result |-> res, iter |-> Tail(iter)]
              ELSE [ret |-> None, result |-> Some(b.v), iter |-> Tail(iter)]
    ELSE [ret |-> None, result |-> res, iter |-> iter]

\* bug variant: the fold's value wins over the recorded residual
with_folding_result_ok_first(res, ok_res) == from_output(ok_res)

\* lib.rs with_folding, after f returned ok_res
with_folding_result(res, ok_res) ==
    IF res # None THEN from_residual(res[1]) ELSE from_output(ok_res)

\* lib.rs with_folding up to the call of f
with_folding(s) ==
    /\ source = s
    /\ input_iter = s
    /\ result = None
    /\ acc = 0              \* f = a sum over the outputs it chooses to pull
    /\ pc = "running"
    /\ folded = None
    /\ calls = <<>>
    /\ buffer = <<>> /\ mult = <<>> /\ pending = <<>>
    /\ handles = <<>> /\ cells = <<>>
    /\ original_max = None /\ hinted = None

InitFolding == \E s \in StreamsTo(MaxFoldLen) : with_folding(s)

\* f asks the BreakingIterator for its next item and adds it to its sum
FoldPull ==
    /\ pc = "running"
    /\ Len(calls) < MaxFoldLen + 2
    /\ LET r == BreakingIterator_next(result, input_iter) IN
       /\ result' = r.result
       /\ input_iter' = r.iter
       /\ acc' = IF r.ret = None THEN acc ELSE acc + r.ret[1]
       /\ calls' = Append(calls, [ret |-> r.ret, advanced |-> TRUE,
                                  pulled |-> Len(input_iter) - Len(r.iter)])
    /\ hinted' = None
    /\ UNCHANGED <<source, buffer, mult, pending, pc, folded, bufferVars, original_max>>

\* f returns its sum and with_folding builds the overall result
FoldReturn ==
    /\ pc = "running"
    /\ pc' = "done"
    /\ folded' = Some(with_folding_result(result, acc))
    /\ hinted' = None
    /\ UNCHANGED <<source, input_iter, buffer, mult, pending, calls, result, acc, bufferVars,
                   original_max>>

NextFolding == FoldPull \/ FoldReturn

SpecFolding == InitFolding /\ [][NextFolding]_vars

----------------------------------------------------------------------------
(* Claims on the break-on-divergence fold                                   *)

RECURSIVE SumOutputs(_)
SumOutputs(s) ==
    IF s = <<>> THEN 0
    ELSE (IF IsNormal(Head(s)) THEN Head(s).v ELSE 0) + SumOutputs(Tail(s))

HasDivergent(s) == \E i \in DOMAIN s : IsDivergent(s[i])

FirstDivergent(s) ==
    s[CHOOSE i \in DOMAIN s :
        IsDivergent(s[i]) /\ \A j \in 1..(i - 1) : ~IsDivergent(s[j])]

\* collect::<Result<Vec<_>, _>>() and then the fold over the Vec
CollectThenFold(s) ==
    IF HasDivergent(s) THEN FirstDivergent(s) ELSE from_output(SumOutputs(s))

\* a step that is a call of next()
Called == Len(calls') = Len(calls) + 1
\* number of source elements consumed so far
Consumed == Len(source) - Len(input_iter)

\* the first k elements of s (all of s when it is shorter)
FirstK(s, k) == SubSeq(s, 1, IF k < Len(s) THEN k ELSE Len(s))

\* C5: when f pulled until it saw None, with_folding returns what
\* collect-then-fold returns: the first divergent element of the source if
\* there is one, else Normal(f of all the outputs).
C5_FoldEqualsCollectThenFold ==
    (pc = "done" /\ Drained) => folded = Some(CollectThenFold(source))

C5_Witness ==
    /\ pc = "done" /\ Drained
    /\ Len(source) >= 3 /\ IsNormal(source[1])
    /\ Len(SelectSeq(source, IsDivergent)) >= 2
    /\ \E i, j \in DOMAIN source :
          i < j /\ IsDivergent(source[i]) /\ IsDivergent(source[j]) /\ source[i] # source[j]
    /\ folded = Some(FirstDivergent(source))

\* C6: a call of next() consumes at most one source element, returning from f
\* consumes none, and when f returns after k calls with no divergent element
\* among the first k of the source, the result is Normal(f's sum of them).
C6_FoldLaziness ==
    [][ /\ Len(input_iter) - Len(input_iter') <= 1
        /\ ~Called => input_iter' = input_iter
        /\ Len(source) - Len(input_iter') <= Len(calls')
        /\ (pc' = "done" /\ ~HasDivergent(FirstK(source, Len(calls')))) =>
              folded' = Some(from_output(SumOutputs(FirstK(source, Len(calls')))))
      ]_vars

\* f stopped after N1, N2, N1 with divergent elements still unread: Normal(4)
C6_Witness ==
    /\ pc = "done"
    /\ Len(calls) = 3
    /\ Len(source) > 3 /\ IsDivergent(source[4])
    /\ SubSeq(source, 1, 3) = <<from_output(1), from_output(2), from_output(1)>>
    /\ input_iter = SubSeq(source, 4, Len(source))
    /\ folded = Some(from_output(4))

\* C7: the slot is written at most once, by the call that pulls the first
\* divergent element of the source and with that element's residual; a call
\* that pulls a normal element or finds the source exhausted leaves it alone.
C7_SlotWrittenOnce ==
    [][ /\ result # None => result' = result
        /\ (result = None /\ result' # None) =>
              /\ Called
              /\ input_iter # <<>> /\ IsDivergent(Head(input_iter))
              /\ input_iter' = Tail(input_iter)
              /\ result' = Some(Head(input_iter).v)
              /\ ~HasDivergent(SubSeq(source, 1, Consumed))
        /\ (Called /\ result = None /\ input_iter # <<>> /\ IsDivergent(Head(input_iter))) =>
              result' = Some(Head(input_iter).v)
        /\ (Called /\ (input_iter = <<>> \/ IsNormal(Head(input_iter)))) =>
              result' = result
      ]_vars

\* the slot holds the first residual although next() was called again with a
\* different divergent element still in the source
C7_Witness ==
    /\ result # None
    /\ result = Some(FirstDivergent(source).v)
    /\ Len(calls) > Consumed
    /\ HasDivergent(input_iter) /\ FirstDivergent(input_iter).v # result[1]

\* C8: once a residual is recorded, every call of next() returns None, pulls
\* nothing from the source and leaves the slot as it is.
C8_ExhaustionStability ==
    [][ (result # None /\ Called) =>
            /\ calls'[Len(calls')].ret = None
            /\ input_iter' = input_iter
            /\ result' = result
      ]_vars

\* next() was called after the residual was recorded, with source left to pull
C8_Witness ==
    /\ result # None
    /\ Len(calls) >= Consumed + 2
    /\ calls[Len(calls)].pulled = 0 /\ calls[Len(calls)].ret = None
    /\ input_iter # <<>>

----------------------------------------------------------------------------
(* A bare buffer and its handles: Buffer<T> = Rc<RefCell<VecDeque<T>>>      *)

BufferItems == {from_output(1), from_residual(1), from_residual(2)}

\* bug variant: the clone gets a queue of its own
Rc_clone_deep(hs, cs, h) ==
    [handles |-> Append(hs, Len(cs) + 1), cells |-> Append(cs, cs[hs[h]])]

\* Clone of the Rc: one more handle on the same cell
Rc_clone(hs, cs, h) == [handles |-> Append(hs, hs[h]), cells |-> cs]

\* Buffer::default()
InitBuffer ==
    /\ handles = <<1>>
    /\ cells = << <<>> >>
    /\ calls = <<>>
    /\ source = <<>> /\ input_iter = <<>> /\ buffer = <<>> /\ mult = <<>> /\ pending = <<>>
    /\ result = None /\ acc = 0 /\ pc = "idle" /\ folded = None
    /\ original_max = None /\ hinted = None

BufferClone ==
    /\ Len(handles) < MaxHandles
    /\ \E h \in DOMAIN handles :
          LET r == Rc_clone(handles, cells, h) IN
          handles' = r.handles /\ cells' = r.cells
    /\ UNCHANGED <<filteredVars, foldingVars, calls, hinted>>

BufferPush ==
    /\ Len(calls) < MaxOps
    /\ \E h \in DOMAIN handles, input \in BufferItems :
          /\ cells' = [cells EXCEPT ![handles[h]] = push(@, input)]
          /\ calls' = Append(calls, [op |-> "push", h |-> h, arg |-> Some(input), ret |-> None])
    /\ UNCHANGED <<filteredVars, foldingVars, handles, hinted>>

BufferPop ==
    /\ Len(calls) < MaxOps
    /\ \E h \in DOMAIN handles :
          LET r == pop(cells[handles[h]]) IN
          /\ cells' = [cells EXCEPT ![handles[h]] = r.q]
          /\ calls' = Append(calls, [op |-> "pop", h |-> h, arg |-> None, ret |-> r.ret])
    /\ UNCHANGED <<filteredVars, foldingVars, handles, hinted>>

BufferPushAndPop ==
    /\ Len(calls) < MaxOps
    /\ \E h \in DOMAIN handles, input \in BufferItems :
          LET r == push_and_pop(cells[handles[h]], input) IN
          /\ cells' = [cells EXCEPT ![handles[h]] = r.q]
          /\ calls' = Append(calls, [op |-> "push_and_pop", h |-> h,
                                     arg |-> Some(input), ret |-> Some(r.ret)])
    /\ UNCHANGED <<filteredVars, foldingVars, handles, hinted>>

NextBuffer == BufferClone \/ BufferPush \/ BufferPop \/ BufferPushAndPop

SpecBuffer == InitBuffer /\ [][NextBuffer]_vars

----------------------------------------------------------------------------
(* Claims on the bare buffer                                                *)

TakesInput(c) == c.op \in {"push", "push_and_pop"}
GivesOutput(c) == c.op \in {"pop", "push_and_pop"} /\ c.ret # None

\* the values handed in by the calls of log, in call order
HandedIn(log) == LET t == SelectSeq(log, TakesInput) IN [i \in DOMAIN t |-> t[i].arg[1]]
\* the values returned by the calls of log, in call order
Released(log) == LET t == SelectSeq(log, GivesOutput) IN [i \in DOMAIN t |-> t[i].ret[1]]

\* C9: whatever handles the calls go through, the values returned by pop and
\* push_and_pop followed by the values still queued are exactly the values
\* handed in, in the order they were handed in; pop returns None exactly when
\* everything handed in before it had been returned.
C9_BufferFifo ==
    /\ \A h \in DOMAIN handles :
          Released(calls) \o cells[handles[h]] = HandedIn(calls)
    /\ \A i \in DOMAIN calls :
          calls[i].op = "pop" =>
             LET before == SubSeq(calls, 1, i - 1) IN
             IF Released(before) = HandedIn(before)
             THEN calls[i].ret = None
             ELSE calls[i].ret = Some(HandedIn(before)[Len(Released(before)) + 1])

\* two values went in through one handle and came out, in order, through
\* another one
C9_Witness ==
    /\ Len(handles) >= 2
    /\ Len(calls) >= 3
    /\ calls[1].op = "push" /\ calls[2].op = "push_and_pop" /\ calls[3].op = "pop"
    /\ calls[1].h # calls[2].h
    /\ calls[1].arg # calls[2].arg
    /\ calls[2].ret = calls[1].arg /\ calls[3].ret = calls[2].arg

\* C10: push_and_pop(v) leaves the queue and returns the value that push(v)
\* followed by pop() would: on a non-empty queue the previous head, with the
\* length unchanged and v the new tail; on an empty queue v, the queue empty.
C10_PushAndPopIsPushThenPop ==
    [][ (Called /\ calls'[Len(calls')].op = "push_and_pop") =>
          LET c == calls'[Len(calls')]
              q == cells[handles[c.h]]
              qq == cells'[handles[c.h]]
              twoStep == pop(push(q, c.arg[1]))
          IN  /\ c.ret = twoStep.ret
              /\ qq = twoStep.q
              /\ q # <<>> => /\ c.ret = Some(Head(q))
                             /\ Len(qq) = Len(q)
                             /\ qq[Len(qq)] = c.arg[1]
                             /\ SubSeq(qq, 1, Len(qq) - 1) = Tail(q)
              /\ q = <<>> => c.ret = c.arg /\ qq = <<>>
      ]_vars

\* push_and_pop was called on a queue of two distinct values
C10_Witness ==
    /\ Len(calls) >= 3
    /\ calls[1].op = "push" /\ calls[2].op = "push" /\ calls[3].op = "push_and_pop"
    /\ calls[3].ret = calls[1].arg
    /\ calls[3].arg # calls[2].arg
    /\ \A h \in DOMAIN handles : cells[handles[h]] = <<calls[2].arg[1], calls[3].arg[1]>>

----------------------------------------------------------------------------
(* Claims on the buffer protocol of a pipeline run                          *)

IsPrefix(a, b) == Len(a) <= Len(b) /\ SubSeq(b, 1, Len(a)) = a

\* the items a FilteredIter::next call x appended to the queue
InnerEnqueued(x) == SubSeq(x.q1, Len(x.q0) + 1, Len(x.q1))

\* the queue as the FilteredIter calls of the DefilteredIter call c left it
AfterInner(c) == IF c.inner = <<>> THEN c.q0 ELSE c.inner[Len(c.inner)].q1

\* the DefilteredIter call c put the output it pulled into the queue
Requeued(c) ==
    /\ c.qpap # None
    /\ c.q1 # <<>>
    /\ c.q1[Len(c.q1)] = from_output(c.tret[1])
    /\ Len(c.q1) = Len(c.qpap[1])

RECURSIVE AllInner(_)
\* the FilteredIter::next calls of a run, in the order they were made
AllInner(log) == IF log = <<>> THEN <<>> ELSE Head(log).inner \o AllInner(Tail(log))

ReturnedSome(x) == x.ret # None
\* the outputs returned by the calls of a sequence of FilteredIter::next calls
InnerOutputs(xs) == LET t == SelectSeq(xs, ReturnedSome) IN [i \in DOMAIN t |-> t[i].ret[1]]
\* the outputs of the normal elements of a stream
OutputsOf(str) == LET t == SelectSeq(str, IsNormal) IN [i \in DOMAIN t |-> t[i].v]

\* C14: a next_unwrapped call consumes a run of divergent elements, appending
\* them to the queue in the order met, and stops right after the first normal
\* element, returning its output; it returns None only with the source used
\* up and everything it met appended to the queue.  Over a run, the calls
\* return the outputs of the normal elements consumed, in source order.
C14_NextUnwrappedStep ==
    /\ \A i \in DOMAIN AllInner(calls) :
          LET x == AllInner(calls)[i]
              n == Len(x.iter0) - Len(x.iter1)
              met == SubSeq(x.iter0, 1, n)
          IN  /\ n >= 0
              /\ x.iter1 = SubSeq(x.iter0, n + 1, Len(x.iter0))
              /\ x.ret # None =>
                    /\ n >= 1
                    /\ met[n] = from_output(x.ret[1])
                    /\ \A e \in 1..(n - 1) : IsDivergent(met[e])
                    /\ x.q1 = x.q0 \o SubSeq(met, 1, n - 1)
              /\ x.ret = None =>
                    /\ x.iter1 = <<>>
                    /\ \A e \in 1..n : IsDivergent(met[e])
                    /\ x.q1 = x.q0 \o met
    /\ InnerOutputs(AllInner(calls)) = OutputsOf(SubSeq(source, 1, Consumed))
    /\ (\E i \in DOMAIN AllInner(calls) : AllInner(calls)[i].ret = None) =>
          InnerOutputs(AllInner(calls)) = OutputsOf(source)

\* the sample stream, unwrapped to 1, 2, 1, 3, 1, 5 and then None, with boom
\* and hi buffered by the call that returned 3
C14_Witness ==
    /\ source = result_samples
    /\ InnerOutputs(AllInner(calls)) = <<1, 2, 1, 3, 1, 5>>
    /\ AllInner(calls)[Len(AllInner(calls))].ret = None
    /\ \E i \in DOMAIN AllInner(calls) :
          /\ AllInner(calls)[i].ret = Some(3)
          /\ InnerEnqueued(AllInner(calls)[i]) = <<from_residual(1), from_residual(2)>>

\* C15: a call made with a non-empty queue returns the head of the queue and
\* does not ask the transformed stream; a call whose pull of the transformed
\* stream returned x after k >= 1 divergent values were buffered returns the
\* oldest of them, the next k-1 calls return the others in order and the call
\* after those returns the wrapped x, none of them asking the stream.
C15_DrainBeforePull ==
    \A i \in DOMAIN calls :
        LET c == calls[i]
            held == AfterInner(c)
            k == Len(held)
        IN  /\ c.q0 # <<>> =>
                  /\ c.ret = Some(Head(c.q0))
                  /\ ~c.advanced /\ c.inner = <<>> /\ c.pulled = 0
            /\ (c.tret # None /\ k >= 1) =>
                  /\ \A e \in 1..k : IsDivergent(held[e])
                  /\ c.ret = Some(held[1])
                  /\ \A j \in 1..(k - 1) :
                        (i + j) \in DOMAIN calls =>
                            /\ calls[i + j].ret = Some(held[j + 1])
                            /\ ~calls[i + j].advanced
                  /\ (i + k) \in DOMAIN calls =>
                        /\ calls[i + k].ret = Some(from_output(c.tret[1]))
                        /\ ~calls[i + k].advanced

\* the sample stream filtered by 'value > 2': the first call buffers boom and
\* hi while pulling 3 and returns boom, the next returns hi, the third Ok(3)
C15_Witness ==
    /\ source = result_samples
    /\ Len(calls) >= 3
    /\ calls[1].tret = Some(3) /\ Len(AfterInner(calls[1])) = 2
    /\ calls[1].ret = Some(from_residual(1))
    /\ calls[2].ret = Some(from_residual(2)) /\ ~calls[2].advanced
    /\ calls[3].ret = Some(from_output(3)) /\ ~calls[3].advanced

\* C16: whenever DefilteredIter::next returns None the queue is empty, and
\* every later call returns None as well.
C16_ExhaustedMeansEmpty ==
    \A i \in DOMAIN calls :
        calls[i].ret = None =>
            /\ calls[i].q1 = <<>>
            /\ \A j \in DOMAIN calls : j > i => calls[j].ret = None

GaveItem(c) == c.ret # None
\* every item returned so far by DefilteredIter::next, before and after a None
Emitted == LET t == SelectSeq(calls, GaveItem) IN [i \in DOMAIN t |-> t[i].ret[1]]

\* C17: the divergent elements consumed from the source so far are the
\* divergent elements emitted so far followed by those in the queue.
C17_DivergenceConserved ==
    SelectSeq(SubSeq(source, 1, Consumed), IsDivergent)
        = SelectSeq(Emitted, IsDivergent) \o SelectSeq(buffer, IsDivergent)

\* two divergent values were consumed in one pull: one is out, the other is
\* still queued ahead of the wrapped output
C17_Witness ==
    /\ Len(calls) = 1
    /\ Len(buffer) = 2 /\ IsDivergent(buffer[1]) /\ IsNormal(buffer[2])
    /\ Emitted # <<>> /\ IsDivergent(Emitted[1]) /\ Emitted[1] # buffer[1]

\* between calls the queue holds at most one normal value, at its tail
BufferShape ==
    \A e \in DOMAIN buffer : IsNormal(buffer[e]) => e = Len(buffer)

\* C18 as stated: the queue shape, and every FilteredIter pull starts with
\* an empty queue.
C18_FilteredPulledOnEmpty ==
    /\ BufferShape
    /\ \A i \in DOMAIN AllInner(calls) : AllInner(calls)[i].q0 = <<>>

\* C18 amended: the queue shape; the transformed stream is only asked with an
\* empty queue; a FilteredIter pull may start with divergent values queued
\* but never with a normal value queued.
C18_BufferShape ==
    /\ BufferShape
    /\ \A i \in DOMAIN calls :
          /\ calls[i].advanced => calls[i].q0 = <<>>
          /\ calls[i].inner # <<>> => calls[i].inner[1].q0 = <<>>
    /\ \A i \in DOMAIN AllInner(calls) :
          \A e \in DOMAIN AllInner(calls)[i].q0 : IsDivergent(AllInner(calls)[i].q0[e])

\* f dropped the first output pulled and pulled again with a divergent value
\* already queued; the wrapped second output is now alone in the queue
C18_Witness ==
    /\ Len(calls) = 1
    /\ Len(calls[1].inner) = 2
    /\ calls[1].inner[2].q0 # <<>>
    /\ Len(buffer) = 1 /\ IsNormal(buffer[1])

\* ---------------------------------------------------------------------
\* Size hints
\* ---------------------------------------------------------------------

\* a size hint (usize, Option<usize>)
Hint(l, h) == [lo |-> l, hi |-> h]

\* Iterator::max of a non-empty sequence of numbers
IterMax(s) == CHOOSE x \in {s[i] : i \in DOMAIN s} : \A i \in DOMAIN s : s[i] <= x

\* the hints an iterator with n items left may truthfully report
SoundHints(n) == {Hint(l, h) : l \in {0, n}, h \in {None, Some(n)}}

\* passes the wrapped hint through unchanged
FilteredIter_size_hint_passthrough(inner) == inner

\* FilteredIter::size_hint: let (_, high) = input_iter.size_hint(); (0, high)
FilteredIter_size_hint(inner) == Hint(0, inner.hi)

\* BreakingIterator::size_hint: let (_, high) = input_iter.size_hint(); (0, high)
BreakingIterator_size_hint(inner) == Hint(0, inner.hi)

\* DefilteredIter::size_hint:
\*   [input_iter.size_hint().1, original_max].into_iter().flatten().max()
\* flatten() keeps the bounds that are present; max() of nothing is None
DefilteredIter_size_hint(inner, omax) ==
    LET flattened == inner.hi \o omax IN
    Hint(0, IF flattened = <<>> THEN None ELSE Some(IterMax(flattened)))

\* the state a next() of the pipeline starts from
PipelineState == [q |-> buffer, iter |-> input_iter, pending |-> pending, inner |-> <<>>]

\* how many outputs the transformed stream still gives before its first None
RECURSIVE TransformedRemaining(_, _)
TransformedRemaining(m, st) ==
    LET t == transformed_next(m, st) IN
    IF t.ret = None THEN 0 ELSE 1 + TransformedRemaining(m, t.st)

\* how many items DefilteredIter::next still gives before its first None
RECURSIVE DefilteredRemaining(_, _)
DefilteredRemaining(m, st) ==
    LET r == next_wrapped(m, st) IN
    IF r.ret = None THEN 0 ELSE 1 + DefilteredRemaining(m, r.st)

\* f asks the FilteredIter it was given for its size hint
FilteredIter_size_hint_call ==
    /\ pc = "idle"
    /\ \E h \in SoundHints(Len(input_iter)) :
          hinted' = Some([on |-> "FilteredIter", inner |-> h,
                          ret |-> FilteredIter_size_hint(h)])
    /\ UNCHANGED <<filteredVars, foldingVars, bufferVars, calls>>

\* the consumer asks the DefilteredIter for its size hint; the transformed
\* stream answers with any hint that is true of the outputs it has left
DefilteredIter_size_hint_call ==
    /\ pc = "idle"
    /\ \E h \in SoundHints(TransformedRemaining(mult, PipelineState)) :
          hinted' = Some([on |-> "DefilteredIter", inner |-> h,
                          ret |-> DefilteredIter_size_hint(h, original_max)])
    /\ UNCHANGED <<filteredVars, foldingVars, bufferVars, calls>>

\* the fold function asks the BreakingIterator for its size hint
BreakingIterator_size_hint_call ==
    /\ pc = "running"
    /\ \E h \in SoundHints(Len(input_iter)) :
          hinted' = Some([on |-> "BreakingIterator", inner |-> h,
                          ret |-> BreakingIterator_size_hint(h)])
    /\ UNCHANGED <<filteredVars, foldingVars, bufferVars, calls>>

\* a pipeline over a source that reports any true upper bound, or a fold
InitHint ==
    \/ /\ InitIdle
       /\ \E s \in StreamsTo(MaxHintLen), f \in Mults :
             \E h \in SoundHints(Len(s)) : with_filtered_buf(s, f, h.hi)
    \/ \E s \in StreamsTo(MaxHintLen) : with_folding(s)

PipelineNext == pc = "idle" /\ DefilteredIter_next

NextHint ==
    \/ PipelineNext
    \/ FilteredIter_size_hint_call
    \/ DefilteredIter_size_hint_call
    \/ FoldPull
    \/ FoldReturn
    \/ BreakingIterator_size_hint_call

SpecHint == InitHint /\ [][NextHint]_vars

\* the hint just obtained from the named iterator, if any
HintOf(who) == IF hinted # None /\ hinted[1].on = who THEN hinted ELSE None

\* the larger of two upper bounds, an absent bound being unbounded
UnboundedMax(a, b) ==
    IF a = None \/ b = None THEN None
    ELSE Some(IF a[1] >= b[1] THEN a[1] ELSE b[1])

\* C12: the DefilteredIter's reported lower bound is 0 and its upper bound is
\* the maximum of the transformed stream's current upper bound and the source
\* upper bound captured at construction, an absent bound counting as unbounded.
C12_UpperIsMax ==
    LET h == HintOf("DefilteredIter") IN
    h # None =>
       /\ h[1].ret.lo = 0
       /\ h[1].ret.hi = UnboundedMax(h[1].inner.hi, original_max)

\* C13: FilteredIter and BreakingIterator report lower bound 0 and the wrapped
\* source's current upper bound, absent when the source's is absent, so never
\* more than the source's upper bound.
C13_FilteringHint ==
    \A who \in {"FilteredIter", "BreakingIterator"} :
       LET h == HintOf(who) IN
       h # None =>
          /\ h[1].ret.lo = 0
          /\ h[1].ret.hi = h[1].inner.hi
          /\ h[1].ret.hi # None =>
                h[1].inner.hi # None /\ h[1].ret.hi[1] <= h[1].inner.hi[1]

\* a FilteredIter whose source has been partly consumed, and reports a
\* positive lower bound and a finite upper bound, answers (0, that bound)
C13_Witness ==
    /\ HintOf("FilteredIter") # None
    /\ Len(input_iter) < Len(source)
    /\ hinted[1].inner.lo > 0
    /\ hinted[1].inner.hi = Some(Len(input_iter))
    /\ hinted[1].ret = Hint(0, Some(Len(input_iter)))

\* C19: when the DefilteredIter reports a finite upper bound n, it yields at
\* most n further items before its first None.
C19_SizeHintSound ==
    LET h == HintOf("DefilteredIter") IN
    (h # None /\ h[1].ret.hi # None) =>
       DefilteredRemaining(mult, PipelineState) <= h[1].ret.hi[1]

====
